---- MODULE Spec2Model ----
(***************************************************************************)
(* Model of restic's Progress (src/progress.go): a Stat accumulator        *)
(* guarded by the mutex curM, callbacks OnUpdate / OnDone serialised by    *)
(* the mutex fnM, a reporter goroutine that ticks on a time.Ticker until   *)
(* the cancel channel is closed, and the Start / Done lifecycle.           *)
(*                                                                         *)
(* Caller goroutines are the elements of Threads.  Each statement of a     *)
(* method that reads or writes a shared field is one step, so that every   *)
(* interleaving of the unsynchronised accesses (p.running, p.cancel, p.c,  *)
(* p.o, the unlocked read of p.cur in Done) is explored.  A panic is       *)
(* modelled as the call ending with result "panic" in the calling          *)
(* goroutine (as under recover()); the behaviours in which the process     *)
(* dies instead are prefixes of the ones explored here.                    *)
(*                                                                         *)
(* Spec is the Progress with its callers and reporters.  FairSpec and      *)
(* SelectFairSpec are the same steps under fair scheduling, with both      *)
(* callbacks set.  StringSpec applies the pure function Stat.String to a   *)
(* range of Stats.                                                         *)
(***************************************************************************)
EXTENDS Integers, FiniteSets, Sequences, TLC

\* ------------------------------------------------------------------ bounds
\* caller goroutines
Threads == {"t1", "t2"}
\* total number of method calls made by all callers
MaxCalls == 4
\* number of those calls made by each caller other than the first
MaxSideCalls == 1
\* number of Start() calls that get past the running check
MaxStarts == 2
\* total number of method calls in the specification with fairness
MaxFairCalls == 3

\* ------------------------------------------------------------------- state
VARIABLES
    isNil,      \* the *Progress the callers hold is nil
    onUpdate,   \* p.OnUpdate # nil
    onDone,     \* p.OnDone # nil
    cur,        \* p.cur
    curM,       \* p.curM is locked
    fnM,        \* p.fnM is locked
    running,    \* p.running
    cancel,     \* p.cancel: id of the channel, 0 = nil
    c,          \* p.c: id of the ticker, 0 = nil
    start,      \* p.start: id of the Start() that took the timestamp, 0 = zero time
    oDone,      \* p.o has run its function
    closed,     \* the channels that have been closed
    stopped,    \* the tickers that have been stopped
    ticks,      \* the stopped tickers with a tick left in their channel C
    pc,         \* position of each caller
    arg,        \* Report: the parameter s
    snap,       \* Report / Done: the local variable cur
    toRead,     \* Done line 152: fields of p.cur not yet copied
    sid,        \* Start: id of this Start() call
    drun,       \* Done: the run (cancel channel id) this call shuts down
    rpc,        \* position of each reporter goroutine
    rsnap,      \* reporter: the local variable cur
    selC,       \* reporter: ticker whose channel the select waits on
    selCancel,  \* reporter: cancel channel the select waits on
    nStarts,    \* Start() calls that got past the running check
    calls,      \* calls made so far, by each caller
    acc,        \* history: sum of the deltas added since p.cur was last zeroed
    dirty,      \* history: another caller has written p.cur while this one is between the
                \* Reset and the return of its Start, or has written p.running = true
                \* while this one is in Done past line 147
    quiet,      \* history: a Done() that shut the instance down has returned, no
                \* p.running = true was written during it or since
    lastPanic,  \* history: message of the last panic raised, "none" before the first
    lastCurrent,\* history: the Stat the last Current() returned
    onDoneCount,\* history: OnDone invocations per run
    doneOver,   \* history: runs whose OnDone invocation has returned
    budget,     \* number of method calls the callers make in all
    fmtArg,     \* Stat.String: the receiver s
    fmtOut      \* Stat.String: the result, NoString before the call

progVars == <<isNil, onUpdate, onDone, cur, curM, fnM, running, cancel, c, start, oDone>>
chanVars == <<closed, stopped, ticks>>
callVars == <<pc, arg, snap, toRead, sid, drun>>
repVars  == <<rpc, rsnap, selC, selCancel>>
histVars == <<nStarts, calls, acc, dirty, quiet, lastPanic, lastCurrent, onDoneCount, doneOver>>
fmtVars == <<fmtArg, fmtOut>>
vars == <<progVars, chanVars, callVars, repVars, histVars, budget, fmtVars>>

Runs == 1..MaxStarts

\* ------------------------------------------------------------------- Stat
ZeroStat == [Files |-> 0, Dirs |-> 0, Bytes |-> 0, Trees |-> 0, Blobs |-> 0]

Stat(f, d, b, t, bl) == [Files |-> f, Dirs |-> d, Bytes |-> b, Trees |-> t, Blobs |-> bl]

\* mutant of AddBytes: s.Bytes = other.Bytes, an assignment in place of +=
AddBytesAssign(s, other) == [s EXCEPT !.Bytes = other.Bytes]

\* mutant of AddFiles: the Add also folds in Trees
AddFilesAndTrees(s, other) ==
    [s EXCEPT !.Files = @ + other.Files, !.Trees = @ + other.Trees]

\* the three statements of Stat.Add, in source order
AddBytes(s, other) == [s EXCEPT !.Bytes = @ + other.Bytes]
AddDirs(s, other)  == [s EXCEPT !.Dirs = @ + other.Dirs]
AddFiles(s, other) == [s EXCEPT !.Files = @ + other.Files]
StatAdd(s, other)  == AddFiles(AddDirs(AddBytes(s, other), other), other)

\* arguments callers pass to Report
ReportArgs == {Stat(0, 0, 1, 1, 1)}
\* arguments callers pass to ReportFile
FileSizes == {2}

ReportFileStat(size) == Stat(1, 0, size, 0, 0)
ReportDirStat == Stat(0, 1, 0, 0, 0)

\* ------------------------------------------------------------ Stat.String
\* Stat.String is applied to Stats whose Bytes run over the whole range of the
\* thresholds 1<<10 .. 1<<40.  A uint64 is written here in base 1024, least
\* significant digit first: <<d0, d1, d2, d3, d4>> is d0 + d1*1024 + ... +
\* d4*1024^4, each digit in 0..1023, so that 1<<(10*k) has the digit 1 at
\* position k+1 and 0 elsewhere.
NumDigits == 5
DigitPos == 1..NumDigits

\* the uint64 constant 1 << (10*k)
Shift(k) == [i \in DigitPos |-> IF i = k + 1 THEN 1 ELSE 0]

\* the uint64 n < 1024
Small(n) == [i \in DigitPos |-> IF i = 1 THEN n ELSE 0]

\* a + 1, for a whose lowest digit is below 1023
PlusOne(a) == [a EXCEPT ![1] = @ + 1]

\* mutant of Greater: a >= b
GreaterOrEqual(a, b) ==
    \A i \in DigitPos :
        a[i] < b[i] => \E j \in DigitPos : j > i /\ a[j] > b[j]

\* the comparison a > b of two uint64: decided at the most significant digit
\* where they differ
Greater(a, b) ==
    \E i \in DigitPos :
        /\ a[i] > b[i]
        /\ \A j \in DigitPos : j > i => a[j] = b[j]

\* lines 182-193: the switch, its cases tried in source order.  The result is
\* the unit and the shift of the divisor; the decimal digits that %.3f prints
\* for the quotient are not expanded.
ByteString(b) ==
    IF Greater(b, Shift(4)) THEN [unit |-> "TiB", shift |-> 40]
    ELSE IF Greater(b, Shift(3)) THEN [unit |-> "GiB", shift |-> 30]
    ELSE IF Greater(b, Shift(2)) THEN [unit |-> "MiB", shift |-> 20]
    ELSE IF Greater(b, Shift(1)) THEN [unit |-> "KiB", shift |-> 10]
    ELSE [unit |-> "B", shift |-> 0]

\* lines 178-197: "Stat(%d files, %d dirs, %v)"
StatString(s) == [files |-> s.Files, dirs |-> s.Dirs, bytes |-> s.Bytes, str |-> ByteString(s.Bytes)]

NoString == [files |-> 0, dirs |-> 0, bytes |-> Small(0), str |-> [unit |-> "none", shift |-> 0]]
ZeroFmtStat == [Files |-> 0, Dirs |-> 0, Bytes |-> Small(0)]

\* the receivers String is applied to
LowDigits == {0, 1, 500, 1023}
HighDigits == {0, 1, 2}
FmtBytes == {b \in [DigitPos -> LowDigits \cup HighDigits] :
                b[1] \in LowDigits /\ \A i \in DigitPos : i > 1 => b[i] \in HighDigits}
FmtStats == {[Files |-> 3, Dirs |-> 1, Bytes |-> b] : b \in FmtBytes}

\* the messages of the panics
PanicStart  == "truing to reset a running Progress"
PanicReport == "reporting in a non-running Progress"
PanicReset  == "resetting a non-running Progress"
PanicDone   == "Done() called on non-running Progress"
PanicClose  == "close of closed channel"
PanicNil    == "invalid memory address or nil pointer dereference"

\* &Progress{d: d}: the zero value of every other field, no call made yet
NewProgress ==
    /\ isNil \in BOOLEAN
    /\ onUpdate \in BOOLEAN
    /\ onDone \in BOOLEAN
    /\ cur = ZeroStat
    /\ curM = FALSE
    /\ fnM = FALSE
    /\ running = FALSE
    /\ cancel = 0
    /\ c = 0
    /\ start = 0
    /\ oDone = FALSE
    /\ closed = {}
    /\ stopped = {}
    /\ ticks = {}
    /\ pc = [t \in Threads |-> "idle"]
    /\ arg = [t \in Threads |-> ZeroStat]
    /\ snap = [t \in Threads |-> ZeroStat]
    /\ toRead = [t \in Threads |-> {}]
    /\ sid = [t \in Threads |-> 0]
    /\ drun = [t \in Threads |-> 0]
    /\ rpc = [e \in Runs |-> "none"]
    /\ rsnap = [e \in Runs |-> ZeroStat]
    /\ selC = [e \in Runs |-> 0]
    /\ selCancel = [e \in Runs |-> 0]
    /\ nStarts = 0
    /\ calls = [t \in Threads |-> 0]
    /\ acc = ZeroStat
    /\ dirty = [t \in Threads |-> FALSE]
    /\ quiet = FALSE
    /\ lastPanic = "none"
    /\ lastCurrent = ZeroStat
    /\ onDoneCount = [e \in 0..MaxStarts |-> 0]
    /\ doneOver = {}

Init ==
    /\ NewProgress
    /\ budget = MaxCalls
    /\ fmtArg = ZeroFmtStat
    /\ fmtOut = NoString

\* ----------------------------------------------------------- call framing
RECURSIVE SumCalls(_, _)
SumCalls(f, S) ==
    IF S = {} THEN 0 ELSE LET t == CHOOSE x \in S : TRUE IN f[t] + SumCalls(f, S \ {t})

TotalCalls == SumCalls(calls, Threads)

\* a caller begins a call, within the bounds on calls
Call(t) ==
    /\ pc[t] = "idle"
    /\ TotalCalls < budget
    /\ t # "t1" => calls[t] < MaxSideCalls
    /\ calls' = [calls EXCEPT ![t] = @ + 1]

\* a caller begins a call on p
Begin(t) ==
    /\ ~isNil
    /\ Call(t)

\* the call of t returns; its local variables go out of scope
Return(t) ==
    /\ pc' = [pc EXCEPT ![t] = "idle"]
    /\ arg' = [arg EXCEPT ![t] = ZeroStat]
    /\ snap' = [snap EXCEPT ![t] = ZeroStat]
    /\ toRead' = [toRead EXCEPT ![t] = {}]
    /\ sid' = [sid EXCEPT ![t] = 0]
    /\ drun' = [drun EXCEPT ![t] = 0]

\* the call of t ends in a panic with message msg
Panic(t, msg) ==
    /\ Return(t)
    /\ lastPanic' = msg

\* t moves on to the statement at label l
Goto(t, l) == pc' = [pc EXCEPT ![t] = l]

\* p.cur is written by t: noted for the callers that are between the Reset and
\* the return of their Start
Touch(t) ==
    dirty' = [u \in Threads |-> IF u # t /\ pc[u] = "start57" THEN TRUE ELSE dirty[u]]

\* the positions of Done after line 147
DoneWindow == {"done148", "done152", "done_fn", "done_cb"}

\* the Done() of t, which shut the instance down, returns
Quiet(t) ==
    /\ quiet' = ~dirty[t]
    /\ dirty' = [dirty EXCEPT ![t] = FALSE]

\* pointwise sum of two Stats over the three reported fields (history only)
PointwiseSum(a, b) ==
    [a EXCEPT !.Files = @ + b.Files, !.Dirs = @ + b.Dirs, !.Bytes = @ + b.Bytes]

\* ------------------------------------------------------------------ Start
\* mutant of StartCheck: the check of p.running is missing
StartCheckNoGuard(t) ==
    /\ Begin(t)
    /\ nStarts < MaxStarts
    /\ nStarts' = nStarts + 1
    /\ sid' = [sid EXCEPT ![t] = nStarts + 1]
    /\ Goto(t, "start53")
    /\ UNCHANGED <<isNil, onUpdate, onDone, cur, curM, fnM, running, cancel, c,
                  start, oDone, closed, stopped, ticks, arg, snap, toRead,
                  drun, rpc, rsnap, selC, selCancel, acc, dirty, quiet,
                  lastPanic, lastCurrent, onDoneCount, doneOver, budget,
                  fmtArg, fmtOut>>

\* lines 45-51 of a call on p: the running check
StartCheck(t) ==
    /\ Begin(t)
    /\ IF running
       THEN
            /\ Panic(t, PanicStart)
            /\ UNCHANGED <<nStarts>>
       ELSE
            /\ nStarts < MaxStarts
            /\ nStarts' = nStarts + 1
            /\ sid' = [sid EXCEPT ![t] = nStarts + 1]
            /\ Goto(t, "start53")
            /\ UNCHANGED <<arg, snap, toRead, drun, lastPanic>>
    /\ UNCHANGED <<isNil, onUpdate, onDone, cur, curM, fnM, running, cancel, c,
                  start, oDone, closed, stopped, ticks, rpc, rsnap, selC,
                  selCancel, acc, dirty, quiet, lastCurrent, onDoneCount,
                  doneOver, budget, fmtArg, fmtOut>>

\* line 53: p.o = sync.Once{}
Start53(t) ==
    /\ pc[t] = "start53"
    /\ oDone' = FALSE
    /\ Goto(t, "start54")
    /\ UNCHANGED <<isNil, onUpdate, onDone, cur, curM, fnM, running, cancel, c,
                  start, closed, stopped, ticks, arg, snap, toRead, sid, drun,
                  rpc, rsnap, selC, selCancel, nStarts, calls, acc, dirty,
                  quiet, lastPanic, lastCurrent, onDoneCount, doneOver,
                  budget, fmtArg, fmtOut>>

\* line 54: p.cancel = make(chan struct{})
Start54(t) ==
    /\ pc[t] = "start54"
    /\ cancel' = sid[t]
    /\ Goto(t, "start55")
    /\ UNCHANGED <<isNil, onUpdate, onDone, cur, curM, fnM, running, c, start,
                  oDone, closed, stopped, ticks, arg, snap, toRead, sid, drun,
                  rpc, rsnap, selC, selCancel, nStarts, calls, acc, dirty,
                  quiet, lastPanic, lastCurrent, onDoneCount, doneOver,
                  budget, fmtArg, fmtOut>>

\* line 55: p.running = true
Start55(t) ==
    /\ pc[t] = "start55"
    /\ running' = TRUE
    /\ dirty' = [u \in Threads |-> IF u # t /\ pc[u] \in DoneWindow THEN TRUE ELSE dirty[u]]
    /\ quiet' = FALSE
    /\ Goto(t, "start56")
    /\ UNCHANGED <<isNil, onUpdate, onDone, cur, curM, fnM, cancel, c, start,
                  oDone, closed, stopped, ticks, arg, snap, toRead, sid, drun,
                  rpc, rsnap, selC, selCancel, nStarts, calls, acc, lastPanic,
                  lastCurrent, onDoneCount, doneOver, budget, fmtArg, fmtOut>>

\* line 56: p.Reset(), its running check (lines 127-129)
Start56(t) ==
    /\ pc[t] = "start56"
    /\ IF running
       THEN
            /\ Goto(t, "start_reset")
            /\ UNCHANGED <<arg, snap, toRead, sid, drun, lastPanic>>
       ELSE
            /\ Panic(t, PanicReset)
    /\ UNCHANGED <<isNil, onUpdate, onDone, cur, curM, fnM, running, cancel, c,
                  start, oDone, closed, stopped, ticks, rpc, rsnap, selC,
                  selCancel, nStarts, calls, acc, dirty, quiet, lastCurrent,
                  onDoneCount, doneOver, budget, fmtArg, fmtOut>>

\* mutant of StartReset: Start does not zero the total
StartResetSkip(t) ==
    /\ pc[t] = "start_reset"
    /\ ~curM
    /\ Goto(t, "start57")
    /\ UNCHANGED <<isNil, onUpdate, onDone, cur, curM, fnM, running, cancel, c,
                  start, oDone, closed, stopped, ticks, arg, snap, toRead,
                  sid, drun, rpc, rsnap, selC, selCancel, nStarts, calls, acc,
                  dirty, quiet, lastPanic, lastCurrent, onDoneCount, doneOver,
                  budget, fmtArg, fmtOut>>

\* line 56: p.Reset(), lines 131-133
StartReset(t) ==
    /\ pc[t] = "start_reset"
    /\ ~curM
    /\ cur' = ZeroStat
    /\ acc' = ZeroStat
    /\ Touch(t)
    /\ Goto(t, "start57")
    /\ UNCHANGED <<isNil, onUpdate, onDone, curM, fnM, running, cancel, c,
                  start, oDone, closed, stopped, ticks, arg, snap, toRead,
                  sid, drun, rpc, rsnap, selC, selCancel, nStarts, calls,
                  quiet, lastPanic, lastCurrent, onDoneCount, doneOver,
                  budget, fmtArg, fmtOut>>

\* lines 57-60: p.start = time.Now(); p.c = time.NewTicker(p.d); go p.reporter()
\* (p.start is read only to compute the elapsed time handed to the callbacks)
Start57(t) ==
    /\ pc[t] = "start57"
    /\ start' = sid[t]
    /\ c' = sid[t]
    /\ rpc' = [rpc EXCEPT ![sid[t]] = "select"]
    /\ dirty' = [dirty EXCEPT ![t] = FALSE]
    /\ Return(t)
    /\ UNCHANGED <<isNil, onUpdate, onDone, cur, curM, fnM, running, cancel,
                  oDone, closed, stopped, ticks, rsnap, selC, selCancel,
                  nStarts, calls, acc, quiet, lastPanic, lastCurrent,
                  onDoneCount, doneOver, budget, fmtArg, fmtOut>>

\* ----------------------------------------------------------------- Report
\* lines 66-72 of a call on p with the argument s: the running check
ReportCheck(t, s) ==
    /\ Begin(t)
    /\ IF running
       THEN
            /\ arg' = [arg EXCEPT ![t] = s]
            /\ Goto(t, "rep_lock")
            /\ UNCHANGED <<snap, toRead, sid, drun, lastPanic>>
       ELSE
            /\ Panic(t, PanicReport)
    /\ UNCHANGED <<isNil, onUpdate, onDone, cur, curM, fnM, running, cancel, c,
                  start, oDone, closed, stopped, ticks, rpc, rsnap, selC,
                  selCancel, nStarts, acc, dirty, quiet, lastCurrent,
                  onDoneCount, doneOver, budget, fmtArg, fmtOut>>

\* lines 65-72: Report(s)
Report(t) == \E s \in ReportArgs : ReportCheck(t, s)

\* lines 88-90: ReportFile(size)
ReportFile(t) == \E size \in FileSizes : ReportCheck(t, ReportFileStat(size))

\* lines 93-95: ReportDir()
ReportDir(t) == ReportCheck(t, ReportDirStat)

\* lines 74-75: p.curM.Lock(); first statement of p.cur.Add(s) (line 173)
ReportAddBytes(t) ==
    /\ pc[t] = "rep_lock"
    /\ ~curM
    /\ curM' = TRUE
    /\ cur' = AddBytes(cur, arg[t])
    /\ Touch(t)
    /\ Goto(t, "rep_dirs")
    /\ UNCHANGED <<isNil, onUpdate, onDone, fnM, running, cancel, c, start,
                  oDone, closed, stopped, ticks, arg, snap, toRead, sid, drun,
                  rpc, rsnap, selC, selCancel, nStarts, calls, acc, quiet,
                  lastPanic, lastCurrent, onDoneCount, doneOver, budget,
                  fmtArg, fmtOut>>

\* line 174
ReportAddDirs(t) ==
    /\ pc[t] = "rep_dirs"
    /\ cur' = AddDirs(cur, arg[t])
    /\ Touch(t)
    /\ Goto(t, "rep_files")
    /\ UNCHANGED <<isNil, onUpdate, onDone, curM, fnM, running, cancel, c,
                  start, oDone, closed, stopped, ticks, arg, snap, toRead,
                  sid, drun, rpc, rsnap, selC, selCancel, nStarts, calls, acc,
                  quiet, lastPanic, lastCurrent, onDoneCount, doneOver,
                  budget, fmtArg, fmtOut>>

\* mutant of ReportAddFiles: cur := p.cur is taken before the Add has finished
ReportAddFilesEarlyCopy(t) ==
    /\ pc[t] = "rep_files"
    /\ cur' = AddFiles(cur, arg[t])
    /\ curM' = FALSE
    /\ acc' = PointwiseSum(acc, arg[t])
    /\ Touch(t)
    /\ IF onUpdate
       THEN
            /\ snap' = [snap EXCEPT ![t] = cur]
            /\ Goto(t, "rep_fn")
            /\ UNCHANGED <<arg, toRead, sid, drun>>
       ELSE
            /\ Return(t)
    /\ UNCHANGED <<isNil, onUpdate, onDone, fnM, running, cancel, c, start,
                  oDone, closed, stopped, ticks, rpc, rsnap, selC, selCancel,
                  nStarts, calls, quiet, lastPanic, lastCurrent, onDoneCount,
                  doneOver, budget, fmtArg, fmtOut>>

\* mutant of ReportAddFiles: p.curM is still locked when OnUpdate is called
ReportAddFilesKeepLock(t) ==
    /\ pc[t] = "rep_files"
    /\ cur' = AddFiles(cur, arg[t])
    /\ curM' = onUpdate
    /\ acc' = PointwiseSum(acc, arg[t])
    /\ Touch(t)
    /\ IF onUpdate
       THEN
            /\ snap' = [snap EXCEPT ![t] = cur']
            /\ Goto(t, "rep_fn")
            /\ UNCHANGED <<arg, toRead, sid, drun>>
       ELSE
            /\ Return(t)
    /\ UNCHANGED <<isNil, onUpdate, onDone, fnM, running, cancel, c, start,
                  oDone, closed, stopped, ticks, rpc, rsnap, selC, selCancel,
                  nStarts, calls, quiet, lastPanic, lastCurrent, onDoneCount,
                  doneOver, budget, fmtArg, fmtOut>>

\* line 175, then lines 76-80: cur := p.cur; p.curM.Unlock(); if p.OnUpdate != nil
ReportAddFiles(t) ==
    /\ pc[t] = "rep_files"
    /\ cur' = AddFiles(cur, arg[t])
    /\ curM' = FALSE
    /\ acc' = PointwiseSum(acc, arg[t])
    /\ Touch(t)
    /\ IF onUpdate
       THEN
            /\ snap' = [snap EXCEPT ![t] = cur']
            /\ Goto(t, "rep_fn")
            /\ UNCHANGED <<arg, toRead, sid, drun>>
       ELSE
            /\ Return(t)
    /\ UNCHANGED <<isNil, onUpdate, onDone, fnM, running, cancel, c, start,
                  oDone, closed, stopped, ticks, rpc, rsnap, selC, selCancel,
                  nStarts, calls, quiet, lastPanic, lastCurrent, onDoneCount,
                  doneOver, budget, fmtArg, fmtOut>>

\* lines 81-82: p.fnM.Lock(); p.OnUpdate(cur, ..., false) is entered
ReportCbBegin(t) ==
    /\ pc[t] = "rep_fn"
    /\ ~fnM
    /\ fnM' = TRUE
    /\ Goto(t, "rep_cb")
    /\ UNCHANGED <<isNil, onUpdate, onDone, cur, curM, running, cancel, c,
                  start, oDone, closed, stopped, ticks, arg, snap, toRead,
                  sid, drun, rpc, rsnap, selC, selCancel, nStarts, calls, acc,
                  dirty, quiet, lastPanic, lastCurrent, onDoneCount, doneOver,
                  budget, fmtArg, fmtOut>>

\* mutant of ReportCbEnd: Report returns without p.fnM.Unlock()
ReportCbEndNoUnlock(t) ==
    /\ pc[t] = "rep_cb"
    /\ Return(t)
    /\ UNCHANGED <<isNil, onUpdate, onDone, cur, curM, fnM, running, cancel, c,
                  start, oDone, closed, stopped, ticks, rpc, rsnap, selC,
                  selCancel, nStarts, calls, acc, dirty, quiet, lastPanic,
                  lastCurrent, onDoneCount, doneOver, budget, fmtArg, fmtOut>>

\* lines 82-85: OnUpdate returns; p.fnM.Unlock()
ReportCbEnd(t) ==
    /\ pc[t] = "rep_cb"
    /\ fnM' = FALSE
    /\ Return(t)
    /\ UNCHANGED <<isNil, onUpdate, onDone, cur, curM, running, cancel, c,
                  start, oDone, closed, stopped, ticks, rpc, rsnap, selC,
                  selCancel, nStarts, calls, acc, dirty, quiet, lastPanic,
                  lastCurrent, onDoneCount, doneOver, budget, fmtArg, fmtOut>>

\* ------------------------------------------------------------------ Reset
\* mutant of ResetCheck: the check of p.running is missing
ResetCheckNoGuard(t) ==
    /\ Begin(t)
    /\ Goto(t, "reset_lock")
    /\ UNCHANGED <<isNil, onUpdate, onDone, cur, curM, fnM, running, cancel, c,
                  start, oDone, closed, stopped, ticks, arg, snap, toRead,
                  sid, drun, rpc, rsnap, selC, selCancel, nStarts, acc, dirty,
                  quiet, lastPanic, lastCurrent, onDoneCount, doneOver,
                  budget, fmtArg, fmtOut>>

\* lines 123-129 of a call on p
ResetCheck(t) ==
    /\ Begin(t)
    /\ IF running
       THEN
            /\ Goto(t, "reset_lock")
            /\ UNCHANGED <<arg, snap, toRead, sid, drun, lastPanic>>
       ELSE
            /\ Panic(t, PanicReset)
    /\ UNCHANGED <<isNil, onUpdate, onDone, cur, curM, fnM, running, cancel, c,
                  start, oDone, closed, stopped, ticks, rpc, rsnap, selC,
                  selCancel, nStarts, acc, dirty, quiet, lastCurrent,
                  onDoneCount, doneOver, budget, fmtArg, fmtOut>>

\* lines 131-133
ResetZero(t) ==
    /\ pc[t] = "reset_lock"
    /\ ~curM
    /\ cur' = ZeroStat
    /\ acc' = ZeroStat
    /\ Touch(t)
    /\ Return(t)
    /\ UNCHANGED <<isNil, onUpdate, onDone, curM, fnM, running, cancel, c,
                  start, oDone, closed, stopped, ticks, rpc, rsnap, selC,
                  selCancel, nStarts, calls, quiet, lastPanic, lastCurrent,
                  onDoneCount, doneOver, budget, fmtArg, fmtOut>>

\* ------------------------------------------------------------------- Done
\* lines 138-144 of a call on p: the first read of p.running
DoneCheck(t) ==
    /\ Begin(t)
    /\ IF running
       THEN
            /\ Goto(t, "done146")
            /\ UNCHANGED <<arg, snap, toRead, sid, drun, lastPanic>>
       ELSE
            /\ Panic(t, PanicDone)
    /\ UNCHANGED <<isNil, onUpdate, onDone, cur, curM, fnM, running, cancel, c,
                  start, oDone, closed, stopped, ticks, rpc, rsnap, selC,
                  selCancel, nStarts, acc, dirty, quiet, lastCurrent,
                  onDoneCount, doneOver, budget, fmtArg, fmtOut>>

\* line 146: the second read of p.running
Done146(t) ==
    /\ pc[t] = "done146"
    /\ IF running
       THEN
            /\ Goto(t, "done147")
            /\ UNCHANGED <<arg, snap, toRead, sid, drun>>
       ELSE
            /\ Return(t)
    /\ UNCHANGED <<isNil, onUpdate, onDone, cur, curM, fnM, running, cancel, c,
                  start, oDone, closed, stopped, ticks, rpc, rsnap, selC,
                  selCancel, nStarts, calls, acc, dirty, quiet, lastPanic,
                  lastCurrent, onDoneCount, doneOver, budget, fmtArg, fmtOut>>

\* mutant of Done147: p.running is left true
Done147Skip(t) ==
    /\ pc[t] = "done147"
    /\ drun' = [drun EXCEPT ![t] = cancel]
    /\ Goto(t, "done148")
    /\ UNCHANGED <<isNil, onUpdate, onDone, cur, curM, fnM, running, cancel, c,
                  start, oDone, closed, stopped, ticks, arg, snap, toRead,
                  sid, rpc, rsnap, selC, selCancel, nStarts, calls, acc,
                  dirty, quiet, lastPanic, lastCurrent, onDoneCount, doneOver,
                  budget, fmtArg, fmtOut>>

\* line 147: p.running = false
Done147(t) ==
    /\ pc[t] = "done147"
    /\ running' = FALSE
    /\ drun' = [drun EXCEPT ![t] = cancel]
    /\ Goto(t, "done148")
    /\ UNCHANGED <<isNil, onUpdate, onDone, cur, curM, fnM, cancel, c, start,
                  oDone, closed, stopped, ticks, arg, snap, toRead, sid, rpc,
                  rsnap, selC, selCancel, nStarts, calls, acc, dirty, quiet,
                  lastPanic, lastCurrent, onDoneCount, doneOver, budget,
                  fmtArg, fmtOut>>

\* lines 148-150: p.o.Do(func() { close(p.cancel) }); closing a closed channel
\* panics, and sync.Once counts a function that panicked as having run
Done148(t) ==
    /\ pc[t] = "done148"
    /\ oDone' = TRUE
    /\ IF ~oDone /\ cancel \in closed
       THEN
            /\ Panic(t, PanicClose)
            /\ dirty' = [dirty EXCEPT ![t] = FALSE]
            /\ UNCHANGED <<closed>>
       ELSE
            /\ closed' = IF oDone THEN closed ELSE closed \cup {cancel}
            /\ toRead' = [toRead EXCEPT ![t] = {"Files", "Dirs", "Bytes"}]
            /\ Goto(t, "done152")
            /\ UNCHANGED <<arg, snap, sid, drun, dirty, lastPanic>>
    /\ UNCHANGED <<isNil, onUpdate, onDone, cur, curM, fnM, running, cancel, c,
                  start, stopped, ticks, rpc, rsnap, selC, selCancel, nStarts,
                  calls, acc, quiet, lastCurrent, onDoneCount, doneOver,
                  budget, fmtArg, fmtOut>>

\* line 152: cur := p.cur, read without p.curM: the copy of the struct is not
\* atomic, its words are read one by one in an order the build chooses, and
\* writers may run in between.  Trees and Blobs are copied with the first word.
\* After the last word: line 154, if p.OnDone != nil.
Done152(t) ==
    /\ pc[t] = "done152"
    /\ \E f \in toRead[t] :
        LET old == IF toRead[t] = {"Files", "Dirs", "Bytes"}
                   THEN [ZeroStat EXCEPT !.Trees = cur.Trees, !.Blobs = cur.Blobs]
                   ELSE snap[t]
            new == [old EXCEPT ![f] = cur[f]]
        IN IF toRead[t] = {f} /\ ~onDone
           THEN
                /\ Return(t)
                /\ Quiet(t)
           ELSE
                /\ toRead' = [toRead EXCEPT ![t] = @ \ {f}]
                /\ snap' = [snap EXCEPT ![t] = new]
                /\ pc' = [pc EXCEPT ![t] = IF toRead[t] = {f} THEN "done_fn" ELSE @]
                /\ UNCHANGED <<arg, sid, drun, dirty, quiet>>
    /\ UNCHANGED <<isNil, onUpdate, onDone, cur, curM, fnM, running, cancel, c,
                  start, oDone, closed, stopped, ticks, rpc, rsnap, selC,
                  selCancel, nStarts, calls, acc, lastPanic, lastCurrent,
                  onDoneCount, doneOver, budget, fmtArg, fmtOut>>

\* lines 155-156: p.fnM.Lock(); p.OnDone(cur, ..., false) is entered
DoneCbBegin(t) ==
    /\ pc[t] = "done_fn"
    /\ ~fnM
    /\ fnM' = TRUE
    /\ onDoneCount' = [onDoneCount EXCEPT ![drun[t]] = @ + 1]
    /\ Goto(t, "done_cb")
    /\ UNCHANGED <<isNil, onUpdate, onDone, cur, curM, running, cancel, c,
                  start, oDone, closed, stopped, ticks, arg, snap, toRead,
                  sid, drun, rpc, rsnap, selC, selCancel, nStarts, calls, acc,
                  dirty, quiet, lastPanic, lastCurrent, doneOver, budget,
                  fmtArg, fmtOut>>

\* lines 156-160: OnDone returns; p.fnM.Unlock()
DoneCbEnd(t) ==
    /\ pc[t] = "done_cb"
    /\ fnM' = FALSE
    /\ doneOver' = doneOver \cup {drun[t]}
    /\ Quiet(t)
    /\ Return(t)
    /\ UNCHANGED <<isNil, onUpdate, onDone, cur, curM, running, cancel, c,
                  start, oDone, closed, stopped, ticks, rpc, rsnap, selC,
                  selCancel, nStarts, calls, acc, lastPanic, lastCurrent,
                  onDoneCount, budget, fmtArg, fmtOut>>

\* ---------------------------------------------------------------- Current
\* line 163 of a call on p: Current has no check of p.running
CurrentCall(t) ==
    /\ Begin(t)
    /\ Goto(t, "cur_lock")
    /\ UNCHANGED <<isNil, onUpdate, onDone, cur, curM, fnM, running, cancel, c,
                  start, oDone, closed, stopped, ticks, arg, snap, toRead,
                  sid, drun, rpc, rsnap, selC, selCancel, nStarts, acc, dirty,
                  quiet, lastPanic, lastCurrent, onDoneCount, doneOver,
                  budget, fmtArg, fmtOut>>

\* lines 164-168: p.curM.Lock(); s := p.cur; p.curM.Unlock(); return s
Current(t) ==
    /\ pc[t] = "cur_lock"
    /\ ~curM
    /\ lastCurrent' = cur
    /\ Return(t)
    /\ UNCHANGED <<isNil, onUpdate, onDone, cur, curM, fnM, running, cancel, c,
                  start, oDone, closed, stopped, ticks, rpc, rsnap, selC,
                  selCancel, nStarts, calls, acc, dirty, quiet, lastPanic,
                  onDoneCount, doneOver, budget, fmtArg, fmtOut>>

\* ------------------------------------------------------ the nil receiver
\* the methods that begin with: if p == nil { return }
NilChecked == {"Start", "Report", "ReportFile", "ReportDir", "Reset", "Done"}

\* a caller begins a call on the nil *Progress
BeginNil(t) ==
    /\ isNil
    /\ Call(t)

\* lines 45-47, 66-68, 88-95, 123-125, 138-140 of a call on a nil *Progress
NilCall(t) ==
    /\ BeginNil(t)
    /\ \E o \in NilChecked : Return(t)
    /\ UNCHANGED <<isNil, onUpdate, onDone, cur, curM, fnM, running, cancel, c,
                  start, oDone, closed, stopped, ticks, rpc, rsnap, selC,
                  selCancel, nStarts, acc, dirty, quiet, lastPanic,
                  lastCurrent, onDoneCount, doneOver, budget, fmtArg, fmtOut>>

\* lines 163-164 of a call on a nil *Progress: Current has no nil check, and
\* p.curM.Lock() dereferences the nil pointer, a run-time panic
NilCurrent(t) ==
    /\ BeginNil(t)
    /\ Panic(t, PanicNil)
    /\ UNCHANGED <<isNil, onUpdate, onDone, cur, curM, fnM, running, cancel, c,
                  start, oDone, closed, stopped, ticks, rpc, rsnap, selC,
                  selCancel, nStarts, acc, dirty, quiet, lastCurrent,
                  onDoneCount, doneOver, budget, fmtArg, fmtOut>>

\* --------------------------------------------------------------- reporter
\* lines 102-104, 114: the select evaluates its channel operands p.c.C and p.cancel
RepSelect(e) ==
    /\ rpc[e] = "select"
    /\ selC' = [selC EXCEPT ![e] = c]
    /\ selCancel' = [selCancel EXCEPT ![e] = cancel]
    /\ rpc' = [rpc EXCEPT ![e] = "wait"]
    /\ UNCHANGED <<isNil, onUpdate, onDone, cur, curM, fnM, running, cancel, c,
                  start, oDone, closed, stopped, ticks, pc, arg, snap, toRead,
                  sid, drun, rsnap, nStarts, calls, acc, dirty, quiet,
                  lastPanic, lastCurrent, onDoneCount, doneOver, budget,
                  fmtArg, fmtOut>>

\* mutant of RepTick: the tick handler zeroes the total after copying it
RepTickDrain(e) ==
    /\ rpc[e] = "wait"
    /\ selC[e] \notin stopped \/ selC[e] \in ticks
    /\ ticks' = ticks \ {selC[e]}
    /\ ~curM
    /\ cur' = ZeroStat
    /\ rsnap' = [rsnap EXCEPT ![e] = IF onUpdate THEN cur ELSE @]
    /\ rpc' = [rpc EXCEPT ![e] = IF onUpdate THEN "tick_fn" ELSE "select"]
    /\ UNCHANGED <<isNil, onUpdate, onDone, curM, fnM, running, cancel, c,
                  start, oDone, closed, stopped, pc, arg, snap, toRead, sid,
                  drun, selC, selCancel, nStarts, calls, acc, dirty, quiet,
                  lastPanic, lastCurrent, onDoneCount, doneOver, budget,
                  fmtArg, fmtOut>>

\* lines 104-109: case <-p.c.C (a running ticker sends a tick sooner or later, a
\* stopped one has at most the tick left in its one-slot channel); then
\* p.curM.Lock(); cur := p.cur; p.curM.Unlock(); if p.OnUpdate != nil
RepTick(e) ==
    /\ rpc[e] = "wait"
    /\ selC[e] \notin stopped \/ selC[e] \in ticks
    /\ ticks' = ticks \ {selC[e]}
    /\ ~curM
    /\ rsnap' = [rsnap EXCEPT ![e] = IF onUpdate THEN cur ELSE @]
    /\ rpc' = [rpc EXCEPT ![e] = IF onUpdate THEN "tick_fn" ELSE "select"]
    /\ UNCHANGED <<isNil, onUpdate, onDone, cur, curM, fnM, running, cancel, c,
                  start, oDone, closed, stopped, pc, arg, snap, toRead, sid,
                  drun, selC, selCancel, nStarts, calls, acc, dirty, quiet,
                  lastPanic, lastCurrent, onDoneCount, doneOver, budget,
                  fmtArg, fmtOut>>

\* mutant of RepCbBegin: the reporter calls OnUpdate without locking p.fnM
RepCbBeginNoLock(e) ==
    /\ rpc[e] = "tick_fn"
    /\ fnM' = TRUE
    /\ rpc' = [rpc EXCEPT ![e] = "tick_cb"]
    /\ UNCHANGED <<isNil, onUpdate, onDone, cur, curM, running, cancel, c,
                  start, oDone, closed, stopped, ticks, pc, arg, snap, toRead,
                  sid, drun, rsnap, selC, selCancel, nStarts, calls, acc,
                  dirty, quiet, lastPanic, lastCurrent, onDoneCount, doneOver,
                  budget, fmtArg, fmtOut>>

\* lines 110-111: p.fnM.Lock(); p.OnUpdate(cur, ..., true) is entered
RepCbBegin(e) ==
    /\ rpc[e] = "tick_fn"
    /\ ~fnM
    /\ fnM' = TRUE
    /\ rpc' = [rpc EXCEPT ![e] = "tick_cb"]
    /\ UNCHANGED <<isNil, onUpdate, onDone, cur, curM, running, cancel, c,
                  start, oDone, closed, stopped, ticks, pc, arg, snap, toRead,
                  sid, drun, rsnap, selC, selCancel, nStarts, calls, acc,
                  dirty, quiet, lastPanic, lastCurrent, onDoneCount, doneOver,
                  budget, fmtArg, fmtOut>>

\* lines 111-113: OnUpdate returns; p.fnM.Unlock(); next iteration
RepCbEnd(e) ==
    /\ rpc[e] = "tick_cb"
    /\ fnM' = FALSE
    /\ rsnap' = [rsnap EXCEPT ![e] = ZeroStat]
    /\ rpc' = [rpc EXCEPT ![e] = "select"]
    /\ UNCHANGED <<isNil, onUpdate, onDone, cur, curM, running, cancel, c,
                  start, oDone, closed, stopped, ticks, pc, arg, snap, toRead,
                  sid, drun, selC, selCancel, nStarts, calls, acc, dirty,
                  quiet, lastPanic, lastCurrent, onDoneCount, doneOver,
                  budget, fmtArg, fmtOut>>

\* lines 114-116: case <-p.cancel: p.c.Stop(); return.  Stop does not drain the
\* channel: a tick sent just before may be left in it.
RepCancel(e) ==
    /\ rpc[e] = "wait"
    /\ selCancel[e] \in closed
    /\ stopped' = stopped \cup {c}
    /\ \E left \in BOOLEAN :
        ticks' = IF left /\ c \notin stopped THEN ticks \cup {c} ELSE ticks
    /\ selC' = [selC EXCEPT ![e] = 0]
    /\ selCancel' = [selCancel EXCEPT ![e] = 0]
    /\ rpc' = [rpc EXCEPT ![e] = "returned"]
    /\ UNCHANGED <<isNil, onUpdate, onDone, cur, curM, fnM, running, cancel, c,
                  start, oDone, closed, pc, arg, snap, toRead, sid, drun,
                  rsnap, nStarts, calls, acc, dirty, quiet, lastPanic,
                  lastCurrent, onDoneCount, doneOver, budget, fmtArg, fmtOut>>

\* ------------------------------------------------------------------- Next
Next ==
    \/ \E t \in Threads :
        \/ StartCheck(t) \/ Start53(t) \/ Start54(t) \/ Start55(t) \/ Start56(t)
        \/ StartReset(t) \/ Start57(t)
        \/ Report(t) \/ ReportFile(t) \/ ReportDir(t)
        \/ ReportAddBytes(t) \/ ReportAddDirs(t) \/ ReportAddFiles(t)
        \/ ReportCbBegin(t) \/ ReportCbEnd(t)
        \/ ResetCheck(t) \/ ResetZero(t)
        \/ DoneCheck(t) \/ Done146(t) \/ Done147(t) \/ Done148(t) \/ Done152(t)
        \/ DoneCbBegin(t) \/ DoneCbEnd(t)
        \/ CurrentCall(t) \/ Current(t) \/ NilCall(t) \/ NilCurrent(t)
    \/ \E e \in Runs :
        \/ RepSelect(e) \/ RepTick(e) \/ RepCbBegin(e) \/ RepCbEnd(e) \/ RepCancel(e)

Spec == Init /\ [][Next]_vars

\* ------------------------------------------------------ fair scheduling
\* the steps of a call that has begun
CallerStep(t) ==
    \/ Start53(t) \/ Start54(t) \/ Start55(t) \/ Start56(t) \/ StartReset(t) \/ Start57(t)
    \/ ReportAddBytes(t) \/ ReportAddDirs(t) \/ ReportAddFiles(t)
    \/ ReportCbBegin(t) \/ ReportCbEnd(t)
    \/ ResetZero(t)
    \/ Current(t)
    \/ Done146(t) \/ Done147(t) \/ Done148(t) \/ Done152(t)
    \/ DoneCbBegin(t) \/ DoneCbEnd(t)

\* the steps of a reporter goroutine
RepStep(e) ==
    RepSelect(e) \/ RepTick(e) \/ RepCbBegin(e) \/ RepCbEnd(e) \/ RepCancel(e)

\* The Go scheduler runs every runnable goroutine sooner or later (weak
\* fairness of the steps of each goroutine); a sync.Mutex hands the lock to a
\* goroutine that has waited for it (starvation mode), so a Lock() of p.fnM,
\* which the reporters take again and again, succeeds when it can succeed
\* again and again (strong fairness; p.curM is taken and released within one
\* step of a reporter, so for it weak fairness is enough).  That a caller
\* begins a call is not required.
Fairness ==
    /\ \A t \in Threads :
          /\ WF_vars(CallerStep(t))
          /\ SF_vars(ReportCbBegin(t))
          /\ SF_vars(DoneCbBegin(t))
    /\ \A e \in Runs : WF_vars(RepStep(e))

\* the same, and the cancel case of the select is taken when it is ready
\* again and again
SelectFairness ==
    /\ Fairness
    /\ \A e \in Runs : SF_vars(RepCancel(e))

\* both callbacks are set
FairInit ==
    /\ NewProgress
    /\ onUpdate /\ onDone
    /\ budget = MaxFairCalls
    /\ fmtArg = ZeroFmtStat
    /\ fmtOut = NoString

FairSpec == FairInit /\ [][Next]_vars /\ Fairness

SelectFairSpec == FairInit /\ [][Next]_vars /\ SelectFairness

\* ------------------------------------------------- Stat.String on its own
\* a Stat to format; the Progress is not used
StringInit ==
    /\ NewProgress
    /\ ~isNil /\ ~onUpdate /\ ~onDone
    /\ budget = 0
    /\ fmtArg \in FmtStats
    /\ fmtOut = NoString

\* lines 178-197: s.String()
String ==
    /\ fmtOut = NoString
    /\ fmtOut' = StatString(fmtArg)
    /\ UNCHANGED <<isNil, onUpdate, onDone, cur, curM, fnM, running, cancel, c,
                  start, oDone, closed, stopped, ticks, pc, arg, snap, toRead,
                  sid, drun, rpc, rsnap, selC, selCancel, nStarts, calls, acc,
                  dirty, quiet, lastPanic, lastCurrent, onDoneCount, doneOver,
                  budget, fmtArg>>

StringNext == String

StringSpec == StringInit /\ [][StringNext]_vars

\* ================================================================ claims
\* callers and reporters that are executing a callback
CallersInCallback == {t \in Threads : pc[t] \in {"rep_cb", "done_cb"}}
ReportersInCallback == {e \in Runs : rpc[e] = "tick_cb"}
AllIdle == \A t \in Threads : pc[t] = "idle"

\* the reporter loops that have been launched and have not returned
LiveReporters == {e \in Runs : rpc[e] \notin {"none", "returned"}}

SameCounts(a, b) == a.Files = b.Files /\ a.Dirs = b.Dirs /\ a.Bytes = b.Bytes

\* C1: no lost updates.  Whenever no Add is in progress (p.curM is free), p.cur
\* equals, over Files, Dirs and Bytes, the pointwise sum of the deltas of all the
\* Report calls that have added since the total was last zeroed, whatever the
\* interleaving of the callers and the ticks; and every Current() returns that sum.
NoLostUpdates ==
    /\ [](~curM => SameCounts(cur, acc))
    /\ [][\A t \in Threads : Current(t) => SameCounts(lastCurrent', acc)]_vars

\* C1 witness: both callers have reported Bytes:1 and Current() has returned 2
TwoReportersSummed ==
    /\ AllIdle
    /\ calls["t2"] = 1
    /\ acc = Stat(0, 0, 2, 0, 0)
    /\ lastCurrent.Bytes = 2

\* C2: callback mutual exclusion.  In every reachable state at most one callback
\* invocation is executing: OnUpdate from Report, OnUpdate from a tick and OnDone
\* from Done never overlap with each other or with themselves.
CallbackMutex ==
    Cardinality(CallersInCallback) + Cardinality(ReportersInCallback) <= 1

\* C2 witness: a Report is inside OnUpdate while a Done and a tick wait for p.fnM
CallbackContended ==
    /\ pc["t1"] = "rep_cb"
    /\ pc["t2"] = "done_fn"
    /\ \E e \in Runs : rpc[e] = "tick_fn"

\* C3 (as claimed): when Done() races with the timer, no OnUpdate invocation of
\* the reporter of a run begins after the OnDone invocation of that run has
\* returned.
NoUpdateAfterDone == \A e \in Runs : e \in doneOver => rpc[e] # "tick_cb"

\* C4 (as claimed): OnDone is invoked at most once per run, however many Done()
\* calls are made and whether they are sequential or concurrent.
OneOnDonePerRun == \A r \in Runs : onDoneCount[r] <= 1

\* C5: Start() on a running instance panics before it changes anything: the
\* total, the start time, the cancel signal, the sync.Once, the ticker and the
\* reporter loops are as they were and no new loop is launched.
StartRejectsRunning ==
    [][\A t \in Threads :
          (running /\ StartCheck(t)) =>
              /\ lastPanic' = PanicStart
              /\ pc'[t] = "idle"
              /\ UNCHANGED <<cur, curM, fnM, running, cancel, c, start, oDone,
                             closed, stopped, ticks, repVars, nStarts, acc>>]_vars

\* C5 witness: a Start() has panicked on a running instance whose loop is alive
StartPanicked ==
    /\ lastPanic = PanicStart
    /\ running
    /\ LiveReporters # {}

\* C6: on an instance on which no Start() has been called, each of Report,
\* ReportFile, ReportDir, Reset and Done panics, and the failing call neither
\* changes the total nor invokes a callback.
FatalBeforeStart ==
    [][\A t \in Threads :
          /\ (nStarts = 0 /\ (Report(t) \/ ReportFile(t) \/ ReportDir(t))) =>
                lastPanic' = PanicReport
          /\ (nStarts = 0 /\ ResetCheck(t)) => lastPanic' = PanicReset
          /\ (nStarts = 0 /\ DoneCheck(t)) => lastPanic' = PanicDone
          /\ (nStarts = 0 /\ (Report(t) \/ ReportFile(t) \/ ReportDir(t)
                              \/ ResetCheck(t) \/ DoneCheck(t))) =>
                /\ pc'[t] = "idle"
                /\ cur' = ZeroStat
                /\ UNCHANGED <<cur, curM, fnM, running, onDoneCount, doneOver>>]_vars

\* C6 witness: a Done() has panicked on an instance that was never started
DonePanickedUnstarted ==
    /\ nStarts = 0
    /\ ~isNil
    /\ lastPanic = PanicDone

\* C7 (as claimed): the stopped state is terminal.  Once Done() has completed,
\* the instance never returns to the running state and a Start() on it panics.
StoppedIsTerminal ==
    [][quiet =>
          /\ ~running'
          /\ \A t \in Threads : StartCheck(t) => lastPanic' = PanicStart]_vars

\* C7 (amended): the stopped state is not terminal.  Once a Done() that shut the
\* instance down has completed, with no Start() writing p.running during it or
\* since, the instance is not running and every Report, ReportFile, ReportDir,
\* Reset and Done panics; a Start() does not panic: it goes on to restart the
\* instance.
StoppedUntilRestart ==
    /\ [](quiet => ~running)
    /\ [][\A t \in Threads :
            /\ (quiet /\ (Report(t) \/ ReportFile(t) \/ ReportDir(t))) =>
                  (lastPanic' = PanicReport /\ pc'[t] = "idle")
            /\ (quiet /\ ResetCheck(t)) => (lastPanic' = PanicReset /\ pc'[t] = "idle")
            /\ (quiet /\ DoneCheck(t)) => (lastPanic' = PanicDone /\ pc'[t] = "idle")
            /\ (quiet /\ StartCheck(t)) =>
                  (lastPanic' = lastPanic /\ pc'[t] = "start53")]_vars

\* C7 witness: after the Done() of the first run, a second Start() has returned
\* and the instance is running again
Restarted ==
    /\ AllIdle
    /\ running
    /\ 1 \in closed
    /\ cancel = 2
    /\ c = 2
    /\ rpc[2] # "none"

\* C8 (as claimed): on a nil *Progress every public operation completes without
\* a panic.
NilIsNoOp == isNil => lastPanic = "none"

\* C9 (as claimed): at most one reporter loop per instance is alive.
OneReporterLoop == Cardinality(LiveReporters) <= 1

\* C10: Start() establishes a clean baseline.  When Start() returns, and no
\* other caller has written the total since the Reset inside it, the total is
\* the zero Stat whatever it was before; and when Reset() returns the total is
\* the zero Stat.
CleanBaseline ==
    [][\A t \in Threads :
          /\ (Start57(t) /\ ~dirty[t]) => cur' = ZeroStat
          /\ ResetZero(t) => cur' = ZeroStat]_vars

\* C10 witness: the second Start() is about to return with the total zero, while
\* the reporter of the first run still holds a snapshot of its non-zero total
CleanAfterReuse ==
    /\ pc["t1"] = "start57"
    /\ sid["t1"] = 2
    /\ ~dirty["t1"]
    /\ cur = ZeroStat
    /\ rsnap[1].Bytes > 0


\* the positions of a Report call past its running check
RepLabels == {"rep_lock", "rep_dirs", "rep_files", "rep_fn", "rep_cb"}

\* C11: each Report that has passed the running check, with OnUpdate set, takes
\* its copy of the total in the critical section of its own add, so that the copy
\* is the total as it stood before the add plus the delta; it then calls
\* OnUpdate (line 82, third argument false) with that copy exactly once, and
\* returns only when that invocation has returned.
ReportCallsBack ==
    [][\A t \in Threads :
          /\ (ReportAddFiles(t) /\ onUpdate) =>
                /\ pc'[t] = "rep_fn"
                /\ snap'[t] = cur'
                /\ SameCounts(snap'[t], PointwiseSum(acc, arg[t]))
          /\ (pc[t] = "rep_fn" /\ pc'[t] # "rep_fn") =>
                (pc'[t] = "rep_cb" /\ snap'[t] = snap[t] /\ fnM')
          /\ (pc[t] = "rep_cb" /\ pc'[t] # "rep_cb") => (pc'[t] = "idle" /\ ~fnM')
          /\ (pc[t] = "rep_cb" /\ pc'[t] = "rep_cb") => snap'[t] = snap[t]
          /\ (onUpdate /\ pc[t] \in RepLabels /\ pc'[t] = "idle") => pc[t] = "rep_cb"]_vars

\* C11 witness: a ReportFile(2) that followed a Report of one byte is inside
\* OnUpdate with the total of both
ReportFileInCallback ==
    /\ pc["t1"] = "rep_cb"
    /\ snap["t1"] = Stat(1, 0, 3, 0, 0)

\* C12 (as claimed): the cancel channel of a run is never closed twice: no
\* Done() ever panics with "close of closed channel".
CancelClosedOnce == lastPanic # PanicClose

\* C13 (as claimed): a Stat whose Bytes is exactly 1<<30 is formatted with the
\* KiB unit.
ExactGiBIsKiB ==
    (fmtOut # NoString /\ fmtArg.Bytes = Shift(3)) => fmtOut.str.unit = "KiB"

\* C13 (amended): the unit is selected with strict greater-than against each
\* power of 1024, tried from the largest down: a Stat whose Bytes is exactly
\* 1<<30 is formatted with the MiB unit, not with GiB and not with KiB; 1<<30 + 1
\* is formatted with GiB and 500 in the raw byte form; and in general exactly
\* 1<<(10*k) gets the unit below the one 1<<(10*k) + 1 gets.
UnitSelection ==
    fmtOut # NoString =>
        /\ fmtOut.bytes = fmtArg.Bytes
        /\ fmtArg.Bytes = Shift(3) => fmtOut.str = [unit |-> "MiB", shift |-> 20]
        /\ fmtArg.Bytes = PlusOne(Shift(3)) => fmtOut.str = [unit |-> "GiB", shift |-> 30]
        /\ fmtArg.Bytes = Small(500) => fmtOut.str = [unit |-> "B", shift |-> 0]
        /\ fmtArg.Bytes = Shift(1) => fmtOut.str.unit = "B"
        /\ fmtArg.Bytes = PlusOne(Shift(1)) => fmtOut.str.unit = "KiB"
        /\ fmtArg.Bytes = Shift(2) => fmtOut.str.unit = "KiB"
        /\ fmtArg.Bytes = PlusOne(Shift(2)) => fmtOut.str.unit = "MiB"
        /\ fmtArg.Bytes = Shift(4) => fmtOut.str.unit = "GiB"
        /\ fmtArg.Bytes = PlusOne(Shift(4)) => fmtOut.str.unit = "TiB"

\* C13 witness: String has formatted a Stat whose Bytes is exactly 1<<30
ExactGiBFormatted ==
    /\ fmtArg.Bytes = Shift(3)
    /\ fmtOut.str.unit = "MiB"

\* the positions at which a caller holds p.curM between two steps
AddSection == {"rep_dirs", "rep_files"}
CallersAdding == {t \in Threads : pc[t] \in AddSection}

\* C14: the counter lock is never held while a callback runs.  p.curM is locked
\* exactly when one caller is inside the add of lines 74-77, p.fnM exactly when
\* one caller or reporter is inside a callback; so no process inside a callback
\* holds p.curM, and no process holds both locks.
CounterLockNotInCallback ==
    /\ curM <=> Cardinality(CallersAdding) = 1
    /\ fnM <=> Cardinality(CallersInCallback) + Cardinality(ReportersInCallback) = 1
    /\ CallersAdding \cap CallersInCallback = {}

\* C14 witness: one caller adds under p.curM while the other is inside OnUpdate
AddDuringCallback ==
    /\ pc["t1"] = "rep_cb"
    /\ pc["t2"] = "rep_dirs"
    /\ curM /\ fnM

\* the deltas the callers report, and the totals that are sums of at most n of them
Deltas == ReportArgs \cup {ReportFileStat(size) : size \in FileSizes} \cup {ReportDirStat}

RECURSIVE Sums(_)
Sums(n) ==
    IF n = 0 THEN {ZeroStat}
    ELSE LET S == Sums(n - 1) IN S \cup {PointwiseSum(s, d) : s \in S, d \in Deltas}

\* the positions of a Start call
StartLabels == {"start53", "start54", "start55", "start56", "start_reset", "start57"}

\* C15 (as claimed), for the first run of an instance and while no Start() is
\* executing: every Stat passed to OnUpdate or OnDone is the pointwise sum of a
\* set of fully applied Report deltas.
ConsistentSnapshots ==
    (nStarts <= 1 /\ \A u \in Threads : pc[u] \notin StartLabels) =>
        /\ \A t \in Threads :
              pc[t] \in {"rep_cb", "done_cb"} => snap[t] \in Sums(MaxCalls)
        /\ \A e \in Runs : rpc[e] = "tick_cb" => rsnap[e] \in Sums(MaxCalls)

\* C16 (as claimed): once the cancel channel of a run has been closed, the
\* reporter loop launched for that run eventually returns.
ReporterTerminates ==
    \A e \in Runs : (e \in closed /\ rpc[e] # "none") ~> (rpc[e] = "returned")

\* C17: no operation blocks forever.  Under fair scheduling, with callbacks
\* that return, every call that has begun eventually ends, by returning or by
\* a panic, whatever the other caller and the reporters do.
EveryCallEnds ==
    \A t \in Threads : (pc[t] # "idle") ~> (pc[t] = "idle")

\* C17 witness: a Done and a Report both wait for p.fnM while a reporter is
\* inside OnUpdate
CallersWaiting ==
    /\ \E e \in Runs : rpc[e] = "tick_cb"
    /\ pc["t1"] = "done_fn"
    /\ pc["t2"] = "rep_fn"

\* C18: Trees and Blobs are never accumulated: they are 0 in the total, in what
\* Current() returns and in every Stat copied for a callback, although the
\* deltas passed to Report carry non-zero Trees and Blobs.
NoTreesNoBlobs ==
    /\ cur.Trees = 0 /\ cur.Blobs = 0
    /\ lastCurrent.Trees = 0 /\ lastCurrent.Blobs = 0
    /\ \A t \in Threads : snap[t].Trees = 0 /\ snap[t].Blobs = 0
    /\ \A e \in Runs : rsnap[e].Trees = 0 /\ rsnap[e].Blobs = 0

\* C18 witness: a Report whose delta has Trees = 1 and Blobs = 1 is inside
\* OnUpdate with a total that has its byte and no tree
TreesDropped ==
    \E t \in Threads :
        /\ pc[t] = "rep_cb"
        /\ arg[t].Trees = 1 /\ arg[t].Blobs = 1
        /\ snap[t].Bytes >= 1
        /\ snap[t].Trees = 0

AtLeast(a, b) == a.Files >= b.Files /\ a.Dirs >= b.Dirs /\ a.Bytes >= b.Bytes

\* C19 (as claimed), for two Report calls: while one Report is inside OnUpdate,
\* the total the other Report is about to pass to OnUpdate (it waits for p.fnM,
\* so its invocation begins after the first has completed) is not less in any
\* field.  Both callers are inside Report, so no Reset or Start lies between the
\* two adds.
ReportsNeverBackwards ==
    \A t, u \in Threads :
        (pc[t] = "rep_cb" /\ pc[u] = "rep_fn") => AtLeast(snap[u], snap[t])

\* C20: a timer tick is read-only.  The steps of the reporter that handle a tick
\* leave the total, the running flag, the start time and the cancel channel
\* unchanged; with OnUpdate unset the tick calls nothing and the loop goes back
\* to the select, with OnUpdate set it copies the total for one OnUpdate call
\* (line 111, third argument true); and every step that changes the total is a
\* step of Report or of Reset (called directly or from Start).
TickReadOnly ==
    [][/\ \A e \in Runs :
            /\ (RepTick(e) \/ RepCbBegin(e) \/ RepCbEnd(e)) =>
                  UNCHANGED <<cur, acc, running, start, cancel, closed>>
            /\ (RepTick(e) /\ ~onUpdate) => (rpc'[e] = "select" /\ fnM' = fnM)
            /\ (RepTick(e) /\ onUpdate) => (rpc'[e] = "tick_fn" /\ rsnap'[e] = cur)
            /\ RepCbBegin(e) => (rpc'[e] = "tick_cb" /\ rsnap'[e] = rsnap[e])
            /\ RepCbEnd(e) => rpc'[e] = "select"
       /\ cur' # cur =>
            \E t \in Threads :
                \/ ReportAddBytes(t) \/ ReportAddDirs(t) \/ ReportAddFiles(t)
                \/ ResetZero(t) \/ StartReset(t)]_vars

\* C20 witness: the reporter is inside OnUpdate for a tick, the total it copied
\* is not zero and is still in place
TickLeftTotal ==
    \E e \in Runs :
        /\ rpc[e] = "tick_cb"
        /\ rsnap[e].Bytes > 0
        /\ cur = rsnap[e]
        /\ running
====
